---------------------------- MODULE Spec2Model ----------------------------
(***************************************************************************)
(* ICAO 9303 Basic Access Control handshake and Secure Messaging command   *)
(* protection, as implemented by src/src/main.rs.                          *)
(*                                                                         *)
(* Bytes are the integers 0..255, byte strings are sequences of bytes.     *)
(* A u64 is kept as four 16-bit limbs, most significant first, because     *)
(* the values of interest (0xFFFFFFFFFFFFFFFF) exceed TLC's 32-bit         *)
(* integers; u64::from_be_bytes / to_be_bytes convert between the two.     *)
(*                                                                         *)
(* The modules tdes, nfc and iso7816 and the sha1 crate are not part of    *)
(* main.rs.  DES and SHA-1 are replaced by small keyed functions with the  *)
(* same shape (block size, key halves, CBC chaining, invertibility), so    *)
(* that a MAC check or a decryption can succeed or fail for the reason it  *)
(* does in the program.                                                    *)
(*                                                                         *)
(* Spec is one run of main; SpecFair is Spec with main running on while it *)
(* can and the transport answering; SpecEnc is one call of enc_apdu;       *)
(* SpecApi is one call of one Icao9303 method.                             *)
(***************************************************************************)
EXTENDS Integers, Sequences, FiniteSets, TLC

(***************************************************************************)
(* Bounds of the model.                                                    *)
(***************************************************************************)
\* longest EXTERNAL AUTHENTICATE response the transport hands back
MaxRespLen == 41
\* longest command data field handed to enc_apdu in SpecEnc
MaxDataLen == 9

(***************************************************************************)
(* Byte helpers.                                                           *)
(***************************************************************************)
RECURSIVE XorByte(_, _)
XorByte(a, b) ==
    IF a = 0 THEN b
    ELSE IF b = 0 THEN a
    ELSE ((a + b) % 2) + 2 * XorByte(a \div 2, b \div 2)

RECURSIVE OrByte(_, _)
OrByte(a, b) ==
    IF a = 0 THEN b
    ELSE IF b = 0 THEN a
    ELSE (IF a % 2 = 1 \/ b % 2 = 1 THEN 1 ELSE 0) + 2 * OrByte(a \div 2, b \div 2)

RECURSIVE PopCount(_)
PopCount(a) == IF a = 0 THEN 0 ELSE (a % 2) + PopCount(a \div 2)

\* (arguments are bound through singleton sets wherever a definition reads
\* them once per byte, so that each is evaluated once per application)
XorBytes(x, y) ==
    CHOOSE z \in {[i \in 1..Len(xv) |-> XorByte(xv[i], yv[i])] : xv \in {x}, yv \in {y}} : TRUE

Zeros(n) == [i \in 1..n |-> 0]

\* Rust's s[a..b] on a slice of length Len(s): in range iff a <= b <= Len(s)
SliceOk(s, a, b) == a <= b /\ b <= Len(s)
Slice(s, a, b) == SubSeq(s, a + 1, b)

(***************************************************************************)
(* u64 as four 16-bit limbs, most significant first.                       *)
(***************************************************************************)
from_be_bytes(b) == [i \in 1..4 |-> b[2 * i - 1] * 256 + b[2 * i]]

to_be_bytes(x) == [i \in 1..8 |-> IF i % 2 = 1 THEN x[(i + 1) \div 2] \div 256
                                               ELSE x[i \div 2] % 256]

\* carry into limb i when n (< 65536) is added to the least significant limb
RECURSIVE CarryInto(_, _, _)
CarryInto(x, n, i) ==
    IF i = 4 THEN n
    ELSE (x[i + 1] + CarryInto(x, n, i + 1)) \div 65536

wrapping_add(x, n) == [i \in 1..4 |-> (x[i] + CarryInto(x, n, i)) % 65536]

\* unsigned comparison x < y
RECURSIVE U64LtFrom(_, _, _)
U64LtFrom(x, y, i) ==
    IF i > 4 THEN FALSE
    ELSE IF x[i] # y[i] THEN x[i] < y[i]
    ELSE U64LtFrom(x, y, i + 1)

U64Lt(x, y) == U64LtFrom(x, y, 1)

U64Max == [i \in 1..4 |-> 65535]
U64Zero == [i \in 1..4 |-> 0]

(***************************************************************************)
(* mod tdes: two-key triple DES in CBC mode with zero IV, the retail MAC   *)
(* and the parity correction.  The single-DES block function is a toy      *)
(* keyed permutation of 8-byte blocks that, like DES, ignores the parity   *)
(* bit of every key byte.                                                  *)
(***************************************************************************)
DesEnc(k, b) ==
    CHOOSE c \in {[i \in 1..8 |-> (bv[(i % 8) + 1] + (kv[i] \div 2) + i) % 256] :
                     kv \in {k}, bv \in {b}} : TRUE

DesDec(k, c) ==
    CHOOSE b \in {[j \in 1..8 |->
                      LET i == ((j + 6) % 8) + 1
                      IN  (cv[i] + 512 - (kv[i] \div 2) - i) % 256] :
                     kv \in {k}, cv \in {c}} : TRUE

KeyA(key) == SubSeq(key, 1, 8)
KeyB(key) == SubSeq(key, 9, 16)

TdesEncBlock(key, b) == DesEnc(KeyA(key), DesDec(KeyB(key), DesEnc(KeyA(key), b)))
TdesDecBlock(key, c) == DesDec(KeyA(key), DesEnc(KeyB(key), DesDec(KeyA(key), c)))

Block(data, j) == SubSeq(data, 8 * j - 7, 8 * j)

\* CBC encryption of blocks j.. with chaining value iv
RECURSIVE CbcEnc(_, _, _, _)
CbcEnc(key, data, j, iv) ==
    IF 8 * j > Len(data) THEN << >>
    ELSE CHOOSE r \in {c \o CbcEnc(key, data, j + 1, c) :
                          c \in {TdesEncBlock(key, XorBytes(Block(data, j), iv))}} : TRUE

RECURSIVE CbcDec(_, _, _, _)
CbcDec(key, data, j, iv) ==
    IF 8 * j > Len(data) THEN << >>
    ELSE XorBytes(TdesDecBlock(key, Block(data, j)), iv)
         \o CbcDec(key, data, j + 1, Block(data, j))

\* the length precondition of enc_3des / dec_3des
BlockAligned(data) == Len(data) % 8 = 0

enc_3des(key, data) == CbcEnc(key, data, 1, Zeros(8))
dec_3des(key, data) == CbcDec(key, data, 1, Zeros(8))

\* ISO 9797-1 padding method 2: 0x80, then zeros up to a multiple of 8
Pad2(data) == data \o <<128>> \o Zeros((7 - (Len(data) % 8)))

\* single-DES CBC under the first key half
RECURSIVE MacChain(_, _, _, _)
MacChain(key, data, j, h) ==
    IF 8 * j > Len(data) THEN h
    ELSE MacChain(key, data, j + 1, DesEnc(KeyA(key), XorBytes(Block(data, j), h)))

\* retail MAC: the chain, then decrypt under the second half and encrypt
\* under the first.  The data is padded inside: enc_apdu hands it 27 bytes
\* (main.rs:309-313) and tests::test_enc_apdu expects a MAC.
mac_3des(key, data) ==
    CHOOSE m \in {DesEnc(KeyA(key), DesDec(KeyB(key), MacChain(key, padded, 1, Zeros(8)))) :
                     padded \in {Pad2(data)}} : TRUE

set_parity_bits(key) ==
    CHOOSE k \in {[i \in 1..Len(kv) |->
                      LET hi == kv[i] - (kv[i] % 2)
                      IN  hi + (IF PopCount(hi) % 2 = 0 THEN 1 ELSE 0)] :
                     kv \in {key}} : TRUE

(***************************************************************************)
(* sha1 crate: a 20-byte digest.  A toy digest of the whole input.         *)
(***************************************************************************)
RECURSIVE Absorb(_, _, _)
Absorb(m, i, acc) ==
    CHOOSE a \in {IF iv > Len(mv) THEN av
                    ELSE Absorb(mv, iv + 1, (av * 31 + mv[iv] + iv) % 65521) :
                     mv \in {m}, iv \in {i}, av \in {acc}} : TRUE

Sha1(m) ==
    CHOOSE h \in {[i \in 1..20 |-> ((a \div (1 + (i % 7))) + a * i + 37 * i) % 256] :
                     a \in {Absorb(m, 1, 17)}} : TRUE

(***************************************************************************)
(* Key derivation (main.rs:275-294).                                       *)
(***************************************************************************)
\* u32::to_be_bytes
be32(c) == <<(c \div 16777216) % 256, (c \div 65536) % 256, (c \div 256) % 256, c % 256>>

seed_from_mrz(mrz) == SubSeq(Sha1(mrz), 1, 16)

derive_key(seed, counter) == set_parity_bits(SubSeq(Sha1(seed \o be32(counter)), 1, 16))

\* variant: the two counters the other way round
derive_keys_Swapped(seed) == <<derive_key(seed, 2), derive_key(seed, 1)>>

derive_keys(seed) == <<derive_key(seed, 1), derive_key(seed, 2)>>

(***************************************************************************)
(* Secure Messaging command protection (main.rs:296-322).                  *)
(***************************************************************************)
\* apdu[0], apdu[0..4] and apdu[5..] are in range
EncApduAccepts(apdu) == Len(apdu) >= 1 /\ SliceOk(apdu, 0, 4) /\ SliceOk(apdu, 5, Len(apdu))

\* variant: the SM bits are toggled instead of set
SetSmBits_Toggle(apdu) == [apdu EXCEPT ![1] = XorByte(@, 12)]

\* apdu[0] |= 0x0C
SetSmBits(apdu) == [apdu EXCEPT ![1] = OrByte(@, 12)]

\* apdu[0..4] followed by 80 00 00 00
CmdHeader(apdu) == Slice(SetSmBits(apdu), 0, 4) \o <<128, 0, 0, 0>>

\* push 0x80, then push 0x00 while len % 8 != 0
PadCmdData(d) == (d \o <<128>>) \o Zeros((8 - ((Len(d) + 1) % 8)) % 8)

\* cmd_data after enc_3des
EncCmdData(kenc_, apdu) == enc_3des(kenc_, PadCmdData(Slice(apdu, 5, Len(apdu))))

\* the bytes pushed for the tag-0x87 header and for Lc
Do87Header == <<135, 9, 1>>
ProtectedLc == <<21>>

\* variant: enc_apdu increments the counter it is handed before folding it in
EncApduMacInput_Incr(keys, ssc_, apdu) ==
    to_be_bytes(wrapping_add(ssc_, 1)) \o CmdHeader(apdu) \o <<135, 9, 1>>
        \o EncCmdData(keys[1], apdu)

\* variant: enc_apdu pads n to a multiple of 8 itself
EncApduMacInput_Padded(keys, ssc_, apdu) ==
    Pad2(to_be_bytes(ssc_) \o CmdHeader(apdu) \o <<135, 9, 1>> \o EncCmdData(keys[1], apdu))

\* n: the MAC input
EncApduMacInput(keys, ssc_, apdu) ==
    to_be_bytes(ssc_) \o CmdHeader(apdu) \o Do87Header \o EncCmdData(keys[1], apdu)

enc_apdu(keys, ssc_, apdu) ==
    Slice(SetSmBits(apdu), 0, 4) \o ProtectedLc
        \o Do87Header \o EncCmdData(keys[1], apdu)
        \o <<142, 8>> \o mac_3des(keys[2], EncApduMacInput(keys, ssc_, apdu))
        \o <<0>>

(***************************************************************************)
(* mod iso7816 / mod nfc: status words and the transport's replies.        *)
(***************************************************************************)
None == -1

is_success(sw) == sw = 36864                                   \* 0x9000

data_remaining(sw) == IF sw \div 256 = 97 THEN sw % 256 ELSE None   \* 0x61xx

\* Result<(StatusWord, Vec<u8>)> of Nfc::send_apdu
TransportError == [ok |-> FALSE, sw |-> 0, data |-> << >>]
Reply(sw, data) == [ok |-> TRUE, sw |-> sw, data |-> data]

(***************************************************************************)
(* Error values.  anyhow!(..) carries its message and the status word;     *)
(* ensure!(cond) carries the text of the condition that failed.            *)
(***************************************************************************)
AnyhowError(text, sw) == [kind |-> "anyhow", text |-> text, sw |-> sw]
EnsureError(cond) == [kind |-> "ensure", text |-> cond, sw |-> 0]
NfcError == [kind |-> "transport", text |-> "", sw |-> 0]
EnvError == [kind |-> "env", text |-> "MRZ", sw |-> 0]

Ok(v) == [ok |-> TRUE, val |-> v, err |-> NfcError]
Err(e) == [ok |-> FALSE, val |-> << >>, err |-> e]

(***************************************************************************)
(* Icao9303 methods used by main: the APDU each sends, and what each makes *)
(* of the reply.                                                           *)
(***************************************************************************)
\* ensure!(file <= 0x1F)
ReadBinaryShortEfAccepts(file) == file <= 31

\* the short EF identifier of CardAccess that main reads
CardAccessSfi == 28

ReadBinaryShortEfApdu(file) == <<0, 176, OrByte(128, file), 0, 0, 0, 0>>

read_binary_short_ef(r) ==
    IF ~r.ok THEN Err(NfcError)
    ELSE IF ~is_success(r.sw) THEN Err(AnyhowError("Failed to read file", r.sw))
    ELSE IF data_remaining(r.sw) # None THEN Err(EnsureError("status.data_remaining() == None"))
    ELSE Ok(r.data)

\* variant: the length of the challenge is not checked
get_challenge_AnyLen(r) ==
    IF ~r.ok THEN Err(NfcError)
    ELSE IF ~is_success(r.sw) THEN Err(AnyhowError("Failed to get challenge", r.sw))
    ELSE Ok(r.data)

GetChallengeApdu == <<0, 132, 0, 0, 8>>

get_challenge(r) ==
    IF ~r.ok THEN Err(NfcError)
    ELSE IF ~is_success(r.sw) THEN Err(AnyhowError("Failed to get challenge", r.sw))
    ELSE IF data_remaining(r.sw) # None THEN Err(EnsureError("status.data_remaining() == None"))
    ELSE IF Len(r.data) # 8 THEN Err(EnsureError("data.len() == 8"))
    ELSE Ok(r.data)

\* assert_eq!(data.len(), 0x28)
ExternalAuthenticateAccepts(data) == Len(data) = 40

ExternalAuthenticateApdu(data) == <<0, 130, 0, 0, 40>> \o data \o <<0>>

external_authenticate(r) ==
    IF ~r.ok THEN Err(NfcError)
    ELSE IF ~is_success(r.sw) THEN Err(AnyhowError("Failed to authenticate", r.sw))
    ELSE Ok(r.data)

(***************************************************************************)
(* The checks main makes on the EXTERNAL AUTHENTICATE response.            *)
(***************************************************************************)
\* variant: the length check only bounds the response from above
RespLenOk_AtMost(d) == Len(d) <= 40

\* ensure!(resp_data.len() == 40)
RespLenOk(d) == Len(d) = 40

\* variant: the comparison of the MAC always passes
MacOk_Always(d, m) == TRUE

\* ensure!(&resp_data[32..] == &mac[..])
MacOk(d, m) == Slice(d, 32, Len(d)) = m

\* ensure!(&resp_data[0..8] == &rnd_ic[..])
RndIcOk(p, nonce) == Slice(p, 0, 8) = nonce

\* variant: only the first half of rnd.ifd is compared
RndIfdOk_Prefix(p, nonce) == Slice(p, 8, 12) = Slice(nonce, 0, 4)

\* ensure!(&resp_data[8..16] == &rnd_ifd[..])
RndIfdOk(p, nonce) == Slice(p, 8, 16) = nonce

\* the errors the four ensure! lines return
RespLenError == EnsureError("resp_data.len() == 40")
MacMismatchError == EnsureError("&resp_data[32..] == &mac[..]")
\* variant: the nonce check reports the MAC check's error
RndIcError_Generic == MacMismatchError

RndIcError == EnsureError("&resp_data[0..8] == &rnd_ic[..]")
RndIfdError == EnsureError("&resp_data[8..16] == &rnd_ifd[..]")

\* seed[i] = k_ifd[i] ^ k_ic[i]
SessionSeed(kifd, kic) == [i \in 1..16 |-> XorByte(kifd[i], kic[i])]

\* variant: the two halves in the other order
SeedSsc_Swapped(ic, ifd) ==
    from_be_bytes(Slice(Slice(ifd, 4, Len(ifd)) \o Slice(ic, 4, Len(ic)), 0, 8))

\* ssc_bytes = rnd_ic[4..] ++ rnd_ifd[4..]; u64::from_be_bytes(ssc_bytes[..8])
SeedSsc(ic, ifd) ==
    from_be_bytes(Slice(Slice(ic, 4, Len(ic)) \o Slice(ifd, 4, Len(ifd)), 0, 8))

\* the plain command main protects: select EF.COM
SelectEfCom == <<0, 164, 2, 12, 2, 1, 1>>


(***************************************************************************)
(* The environment: the MRZ variable, the chip's challenges and keys, the  *)
(* values the random generator can yield, and the replies the transport    *)
(* can hand back.                                                          *)
(***************************************************************************)
\* "L898902C<369080619406236" (ICAO 9303-11 D.2) and a second document
MrzIcao == <<76, 56, 57, 56, 57, 48, 50, 67, 60, 51, 54, 57, 48, 56, 48, 54,
             49, 57, 52, 48, 54, 50, 51, 54>>
MrzOther == <<68, 50, 51, 49, 52, 53, 56, 57, 48, 55>>

\* env::var("MRZ"): unset, or one of the two strings
MrzEnv == {[set |-> FALSE, val |-> << >>],
           [set |-> TRUE, val |-> MrzIcao],
           [set |-> TRUE, val |-> MrzOther]}

\* challenges the chip can issue; one ends in FF FF FF FF
ChipChallenges == {<<70, 8, 249, 25, 136, 112, 34, 18>>,
                   <<1, 2, 3, 4, 255, 255, 255, 255>>}

\* values rng.gen() can yield for rnd_ifd; one ends in FF FF FF FF
RndIfdValues == {<<120, 23, 35, 134, 12, 6, 194, 38>>,
                 <<9, 8, 7, 6, 255, 255, 255, 255>>}

\* values rng.gen() can yield for k_ifd
KIfdValues == {<<11, 121, 82, 64, 203, 112, 73, 176, 28, 25, 179, 62, 50, 128, 79, 11>>,
               [i \in 1..16 |-> 16 * i - 1]}

\* the chip's key contribution k.ic
ChipKeys == {<<11, 79, 128, 50, 62, 179, 25, 28, 176, 73, 112, 203, 64, 82, 121, 11>>}

FlipLast(d) == [d EXCEPT ![Len(d)] = (@ + 1) % 256]
FlipFirst(d) == [d EXCEPT ![1] = (@ + 1) % 256]

\* a response built by a party holding the keys: E(plain) || MAC(E(plain))
Sealed(ke, km, plain) ==
    CHOOSE r \in {e \o mac_3des(km, e) : e \in {enc_3des(ke, plain)}} : TRUE

\* response data the chip side can produce to the command data m
ExtAuthResponses(ke, km, ic, ifd, m) ==
    LET good == {Sealed(ke, km, ic \o ifd \o kic) : kic \in ChipKeys}
        one == CHOOSE g \in good : TRUE
    IN  good
        \cup {FlipLast(one)}
        \cup {Sealed(ke, km, FlipFirst(ic) \o ifd \o kic) : kic \in ChipKeys}
        \cup {Sealed(ke, km, ic \o FlipLast(ifd) \o kic) : kic \in ChipKeys}
        \cup {m}
        \cup {SubSeq(one, 1, l) : l \in {0, 8, 31, 32, 39}}
        \cup {one \o Zeros(l - 40) : l \in 41..MaxRespLen}

CardAccessReplies ==
    {TransportError, Reply(27266, << >>), Reply(24832 + 16, <<49, 20>>),
     Reply(36864, <<49, 20, 48, 18>>)}

ChallengeReplies ==
    {TransportError, Reply(27013, << >>), Reply(24832 + 8, << >>)}
    \cup {Reply(36864, c) : c \in ChipChallenges}
    \cup {Reply(36864, <<1, 2, 3, 4, 5, 6, 7>>), Reply(36864, <<1, 2, 3, 4, 5, 6, 7, 8, 9>>)}

ExtAuthReplies(ke, km, ic, ifd, m) ==
    {TransportError, Reply(25344, << >>)}
    \cup {Reply(36864, d) : d \in ExtAuthResponses(ke, km, ic, ifd, m)}

ProtectedReplies ==
    {TransportError, Reply(27016, << >>), Reply(36864, <<153, 2, 144, 0>>)}

(***************************************************************************)
(* State of one run of main.                                               *)
(***************************************************************************)
VARIABLES
    pc,         \* the statement main is at (where it stopped, once it returned)
    result,     \* "running", or how main ended: "Ok", "Err", "Panic"
    errs,       \* the error values main returned
    out,        \* labels of the lines printed
    sent,       \* APDUs handed to the transport, in order
    rcvd,       \* replies of the transport, in order
    mac_calls,  \* the data of every mac_3des call, in order
    rng_draws,  \* lengths of the values drawn from the random generator
    mrz,        \* the MRZ environment variable
    kenc, kmac, \* MRZ-derived keys
    rnd_ic, rnd_ifd, k_ifd,
    msg,        \* EXTERNAL AUTHENTICATE command data
    resp_data,  \* the response buffer
    mac,        \* the MAC recomputed over the response
    k_ic, seed,
    ksenc, ksmac, ssc,   \* session keys and send sequence counter
    apdu, papdu,         \* the plain and the protected command
    enc_ssc,             \* enc_apdu's own copy of the counter (its ssc parameter)
    call,                \* the entry point running and its arguments
    ret                  \* the value an Icao9303 method returned with Ok

vars == <<pc, result, errs, out, sent, rcvd, mac_calls, rng_draws, mrz, kenc, kmac,
          rnd_ic, rnd_ifd, k_ifd, msg, resp_data, mac, k_ic, seed, ksenc, ksmac,
          ssc, apdu, papdu, enc_ssc, call, ret>>

hsVars == <<kenc, kmac, rnd_ic, rnd_ifd, k_ifd, msg, resp_data, mac, k_ic, seed>>
smVars == <<ksenc, ksmac, ssc, apdu, papdu, enc_ssc>>
ioVars == <<sent, rcvd>>

Unset == << >>

\* an entry point with its byte-string and its integer argument
Call(op, data, file) == [op |-> op, data |-> data, file |-> file]

Init ==
    /\ pc = "read_ca"
    /\ result = "running"
    /\ errs = << >>
    /\ out = << >>
    /\ sent = << >>
    /\ rcvd = << >>
    /\ mac_calls = << >>
    /\ rng_draws = << >>
    /\ mrz \in MrzEnv
    /\ kenc = Unset /\ kmac = Unset
    /\ rnd_ic = Unset /\ rnd_ifd = Unset /\ k_ifd = Unset
    /\ msg = Unset /\ resp_data = Unset /\ mac = Unset
    /\ k_ic = Unset /\ seed = Unset
    /\ ksenc = Unset /\ ksmac = Unset /\ ssc = Unset
    /\ apdu = Unset /\ papdu = Unset /\ enc_ssc = Unset
    /\ call = Call("main", << >>, 0) /\ ret = Unset

\* variant: the first failure of the handshake starts it again
Return_Retry(e) ==
    /\ errs' = Append(errs, e)
    /\ IF Len(errs) = 0 /\ pc \in {"get_chal_wait", "ext_auth_wait", "check_len", "check_mac"}
         THEN result' = "running" /\ pc' = "get_chal"
         ELSE result' = "Err" /\ pc' = pc

\* main returns Err(e) from where it is
Return(e) ==
    /\ result' = "Err"
    /\ errs' = Append(errs, e)
    /\ pc' = pc

\* main unwinds with a panic from where it is
Panic ==
    /\ result' = "Panic"
    /\ errs' = errs
    /\ pc' = pc

Goto(l) ==
    /\ pc' = l
    /\ UNCHANGED <<result, errs>>

Running(l) == pc = l /\ result = "running"

(***************************************************************************)
(* main.rs:199-200  card.read_binary_short_ef(0x1C)?                       *)
(***************************************************************************)
ReadCardAccessSend ==
    /\ Running("read_ca")
    /\ IF ReadBinaryShortEfAccepts(CardAccessSfi)
         THEN /\ sent' = Append(sent, ReadBinaryShortEfApdu(CardAccessSfi))
              /\ Goto("read_ca_wait")
         ELSE /\ Return(EnsureError("file <= 0x1F"))
              /\ UNCHANGED sent
    /\ UNCHANGED <<call, ret, out, rcvd, mac_calls, rng_draws, mrz, hsVars, smVars>>

ReadCardAccessRecv ==
    /\ Running("read_ca_wait")
    /\ \E r \in CardAccessReplies :
         /\ rcvd' = Append(rcvd, r)
         /\ LET res == read_binary_short_ef(r)
            IN  IF res.ok
                  THEN /\ out' = Append(out, "CardAccess")
                       /\ Goto("mrz")
                  ELSE /\ Return(res.err)
                       /\ UNCHANGED out
    /\ UNCHANGED <<call, ret, sent, mac_calls, rng_draws, mrz, hsVars, smVars>>

(***************************************************************************)
(* main.rs:205-211  env::var("MRZ")?, derive_keys(&seed_from_mrz(..))      *)
(***************************************************************************)
DeriveMrzKeys ==
    /\ Running("mrz")
    /\ IF mrz.set
         THEN LET keys == derive_keys(seed_from_mrz(mrz.val))
              IN  /\ kenc' = keys[1]
                  /\ kmac' = keys[2]
                  /\ out' = out \o <<"Using MRZ", "kenc", "kmac">>
                  /\ Goto("get_chal")
         ELSE /\ Return(EnvError)
              /\ UNCHANGED <<kenc, kmac, out>>
    /\ UNCHANGED <<call, ret, sent, rcvd, mac_calls, rng_draws, mrz, rnd_ic, rnd_ifd, k_ifd, msg,
                   resp_data, mac, k_ic, seed, smVars>>

(***************************************************************************)
(* main.rs:214-215  card.get_challenge()?                                  *)
(***************************************************************************)
GetChallengeSend ==
    /\ Running("get_chal")
    /\ sent' = Append(sent, GetChallengeApdu)
    /\ Goto("get_chal_wait")
    /\ UNCHANGED <<call, ret, out, rcvd, mac_calls, rng_draws, mrz, hsVars, smVars>>

GetChallengeRecv ==
    /\ Running("get_chal_wait")
    /\ \E r \in ChallengeReplies :
         /\ rcvd' = Append(rcvd, r)
         /\ LET res == get_challenge(r)
            IN  IF res.ok
                  THEN /\ rnd_ic' = res.val
                       /\ out' = Append(out, "rnd.ic")
                       /\ Goto("gen")
                  ELSE /\ Return(res.err)
                       /\ UNCHANGED <<rnd_ic, out>>
    /\ UNCHANGED <<call, ret, sent, mac_calls, rng_draws, mrz, kenc, kmac, rnd_ifd, k_ifd, msg,
                   resp_data, mac, k_ic, seed, smVars>>

(***************************************************************************)
(* main.rs:217-221  rnd_ifd and k_ifd from the thread's generator          *)
(***************************************************************************)
GenerateNonces ==
    /\ Running("gen")
    /\ \E r \in RndIfdValues, k \in KIfdValues :
         /\ rnd_ifd' = r
         /\ k_ifd' = k
    /\ rng_draws' = rng_draws \o <<8, 16>>
    /\ out' = out \o <<"rnd.ifd", "k.ifd">>
    /\ Goto("build")
    /\ UNCHANGED <<call, ret, sent, rcvd, mac_calls, mrz, kenc, kmac, rnd_ic, msg, resp_data, mac,
                   k_ic, seed, smVars>>

(***************************************************************************)
(* main.rs:223-229  msg = E(rnd_ifd || rnd_ic || k_ifd) || MAC             *)
(***************************************************************************)
\* variant: the key material put into the message is drawn anew
BuildMessage_Redraw ==
    /\ Running("build")
    /\ \E k \in KIfdValues :
         LET e == enc_3des(kenc, rnd_ifd \o rnd_ic \o k)
         IN  /\ msg' = e \o mac_3des(kmac, e)
             /\ mac_calls' = Append(mac_calls, e)
    /\ rng_draws' = Append(rng_draws, 16)
    /\ Goto("ext_auth")
    /\ UNCHANGED <<call, ret, out, sent, rcvd, mrz, kenc, kmac, rnd_ic, rnd_ifd, k_ifd,
                   resp_data, mac, k_ic, seed, smVars>>

BuildMessage ==
    /\ Running("build")
    /\ LET plain == rnd_ifd \o rnd_ic \o k_ifd
       IN  IF BlockAligned(plain)
             THEN LET e == enc_3des(kenc, plain)
                  IN  /\ msg' = e \o mac_3des(kmac, e)
                      /\ mac_calls' = Append(mac_calls, e)
                      /\ Goto("ext_auth")
             ELSE /\ Panic
                  /\ UNCHANGED <<msg, mac_calls>>
    /\ UNCHANGED <<call, ret, out, sent, rcvd, rng_draws, mrz, kenc, kmac, rnd_ic, rnd_ifd, k_ifd,
                   resp_data, mac, k_ic, seed, smVars>>


(***************************************************************************)
(* main.rs:232-233  card.external_authenticate(&msg)?                      *)
(***************************************************************************)
ExternalAuthenticateSend ==
    /\ Running("ext_auth")
    /\ IF ExternalAuthenticateAccepts(msg)
         THEN /\ sent' = Append(sent, ExternalAuthenticateApdu(msg))
              /\ Goto("ext_auth_wait")
         ELSE /\ Panic
              /\ UNCHANGED sent
    /\ UNCHANGED <<call, ret, out, rcvd, mac_calls, rng_draws, mrz, hsVars, smVars>>

ExternalAuthenticateRecv ==
    /\ Running("ext_auth_wait")
    /\ \E r \in ExtAuthReplies(kenc, kmac, rnd_ic, rnd_ifd, msg) :
         /\ rcvd' = Append(rcvd, r)
         /\ LET res == external_authenticate(r)
            IN  IF res.ok
                  THEN /\ resp_data' = res.val
                       /\ out' = Append(out, "Response")
                       /\ Goto("check_len")
                  ELSE /\ Return(res.err)
                       /\ UNCHANGED <<resp_data, out>>
    /\ UNCHANGED <<call, ret, sent, mac_calls, rng_draws, mrz, kenc, kmac, rnd_ic, rnd_ifd, k_ifd,
                   msg, mac, k_ic, seed, smVars>>

\* variant: a response of the wrong length makes main send the command again
CheckLength_Resend ==
    /\ Running("check_len")
    /\ IF RespLenOk(resp_data)
         THEN Goto("check_mac")
         ELSE Goto("ext_auth")
    /\ UNCHANGED <<call, ret, out, ioVars, mac_calls, rng_draws, mrz, hsVars, smVars>>

(***************************************************************************)
(* main.rs:234  ensure!(resp_data.len() == 40)                             *)
(***************************************************************************)
CheckLength ==
    /\ Running("check_len")
    /\ IF RespLenOk(resp_data)
         THEN Goto("check_mac")
         ELSE Return(RespLenError)
    /\ UNCHANGED <<call, ret, out, ioVars, mac_calls, rng_draws, mrz, hsVars, smVars>>

(***************************************************************************)
(* main.rs:237-239  MAC over resp_data[..32], compared to resp_data[32..]  *)
(***************************************************************************)
CheckMac ==
    /\ Running("check_mac")
    /\ IF ~SliceOk(resp_data, 0, 32)
         THEN /\ Panic
              /\ UNCHANGED <<mac, mac_calls, out>>
         ELSE LET m == mac_3des(kmac, Slice(resp_data, 0, 32))
              IN  /\ mac' = m
                  /\ mac_calls' = Append(mac_calls, Slice(resp_data, 0, 32))
                  /\ out' = Append(out, "MAC")
                  /\ IF MacOk(resp_data, m)
                       THEN Goto("decrypt")
                       ELSE Return(MacMismatchError)
    /\ UNCHANGED <<call, ret, ioVars, rng_draws, mrz, kenc, kmac, rnd_ic, rnd_ifd, k_ifd, msg,
                   resp_data, k_ic, seed, smVars>>

(***************************************************************************)
(* main.rs:240-241  dec_3des in place; resp_data = &resp_data[..32]        *)
(***************************************************************************)
Decrypt ==
    /\ Running("decrypt")
    /\ IF SliceOk(resp_data, 0, 32)
         THEN /\ resp_data' = dec_3des(kenc, Slice(resp_data, 0, 32))
              /\ Goto("check_rnd_ic")
         ELSE /\ Panic
              /\ UNCHANGED resp_data
    /\ UNCHANGED <<call, ret, out, ioVars, mac_calls, rng_draws, mrz, kenc, kmac, rnd_ic, rnd_ifd,
                   k_ifd, msg, mac, k_ic, seed, smVars>>

(***************************************************************************)
(* main.rs:244  ensure!(&resp_data[0..8] == &rnd_ic[..])                   *)
(***************************************************************************)
CheckRndIc ==
    /\ Running("check_rnd_ic")
    /\ IF RndIcOk(resp_data, rnd_ic)
         THEN Goto("check_rnd_ifd")
         ELSE Return(RndIcError)
    /\ UNCHANGED <<call, ret, out, ioVars, mac_calls, rng_draws, mrz, hsVars, smVars>>

\* variant: the counter and the session keys are set up before the last check
CheckRndIfd_AssignFirst ==
    /\ Running("check_rnd_ifd")
    /\ ssc' = SeedSsc(rnd_ic, rnd_ifd)
    /\ ksenc' = derive_keys(SessionSeed(k_ifd, Slice(resp_data, 16, 32)))[1]
    /\ ksmac' = derive_keys(SessionSeed(k_ifd, Slice(resp_data, 16, 32)))[2]
    /\ IF RndIfdOk(resp_data, rnd_ifd)
         THEN Goto("session")
         ELSE Return(RndIfdError)
    /\ UNCHANGED <<call, ret, out, ioVars, mac_calls, rng_draws, mrz, hsVars, apdu, papdu, enc_ssc>>

(***************************************************************************)
(* main.rs:245  ensure!(&resp_data[8..16] == &rnd_ifd[..])                 *)
(***************************************************************************)
CheckRndIfd ==
    /\ Running("check_rnd_ifd")
    /\ IF RndIfdOk(resp_data, rnd_ifd)
         THEN Goto("session")
         ELSE Return(RndIfdError)
    /\ UNCHANGED <<call, ret, out, ioVars, mac_calls, rng_draws, mrz, hsVars, smVars>>

(***************************************************************************)
(* main.rs:246-263  k_ic, session seed, session keys, SSC                  *)
(***************************************************************************)
SetupSession ==
    /\ Running("session")
    /\ LET kic == Slice(resp_data, 16, Len(resp_data))
           sd == SessionSeed(k_ifd, kic)
           ks == derive_keys(sd)
       IN  /\ k_ic' = kic
           /\ seed' = sd
           /\ ksenc' = ks[1]
           /\ ksmac' = ks[2]
    /\ ssc' = SeedSsc(rnd_ic, rnd_ifd)
    /\ out' = out \o <<"k.ic", "ks_enc", "ks_mac", "ssc">>
    /\ Goto("protect")
    /\ UNCHANGED <<call, ret, ioVars, mac_calls, rng_draws, mrz, kenc, kmac, rnd_ic, rnd_ifd, k_ifd,
                   msg, resp_data, mac, apdu, papdu, enc_ssc>>

(***************************************************************************)
(* main.rs:265-268  ssc = ssc.wrapping_add(1); enc_apdu(keys, ssc, &apdu)  *)
(***************************************************************************)
\* variants: no increment before the command; an increment that saturates
NextSsc_Keep(c) == c
NextSsc_Saturating(c) == IF c = U64Max THEN c ELSE wrapping_add(c, 1)

\* ssc = ssc.wrapping_add(1)
NextSsc(c) == wrapping_add(c, 1)

\* variant: the command is protected under the keys derived from the MRZ
Protect_MrzKeys ==
    /\ Running("protect")
    /\ apdu' = SelectEfCom
    /\ ssc' = NextSsc(ssc)
    /\ enc_ssc' = ssc'
    /\ papdu' = enc_apdu(<<kenc, kmac>>, enc_ssc', apdu')
    /\ mac_calls' = Append(mac_calls, EncApduMacInput(<<kenc, kmac>>, enc_ssc', apdu'))
    /\ Goto("send_papdu")
    /\ UNCHANGED <<call, ret, out, ioVars, rng_draws, mrz, hsVars, ksenc, ksmac>>

Protect ==
    /\ Running("protect")
    /\ apdu' = SelectEfCom
    /\ ssc' = NextSsc(ssc)
    /\ enc_ssc' = ssc'
    /\ IF EncApduAccepts(apdu')
         THEN /\ papdu' = enc_apdu(<<ksenc, ksmac>>, enc_ssc', apdu')
              /\ mac_calls' = Append(mac_calls, EncApduMacInput(<<ksenc, ksmac>>, enc_ssc', apdu'))
              /\ Goto("send_papdu")
         ELSE /\ Panic
              /\ UNCHANGED <<papdu, mac_calls>>
    /\ UNCHANGED <<call, ret, out, ioVars, rng_draws, mrz, hsVars, ksenc, ksmac>>

(***************************************************************************)
(* main.rs:269-272  card.send_apdu(&papdu)?; Ok(())                        *)
(***************************************************************************)
SendProtected ==
    /\ Running("send_papdu")
    /\ sent' = Append(sent, papdu)
    /\ Goto("send_papdu_wait")
    /\ UNCHANGED <<call, ret, out, rcvd, mac_calls, rng_draws, mrz, hsVars, smVars>>

RecvProtected ==
    /\ Running("send_papdu_wait")
    /\ \E r \in ProtectedReplies :
         /\ rcvd' = Append(rcvd, r)
         /\ IF r.ok
              THEN /\ out' = Append(out, "Response/Data")
                   /\ result' = "Ok"
                   /\ pc' = "done"
                   /\ errs' = errs
              ELSE /\ Return(NfcError)
                   /\ UNCHANGED out
    /\ UNCHANGED <<call, ret, sent, mac_calls, rng_draws, mrz, hsVars, smVars>>

Next ==
    \/ ReadCardAccessSend
    \/ ReadCardAccessRecv
    \/ DeriveMrzKeys
    \/ GetChallengeSend
    \/ GetChallengeRecv
    \/ GenerateNonces
    \/ BuildMessage
    \/ ExternalAuthenticateSend
    \/ ExternalAuthenticateRecv
    \/ CheckLength
    \/ CheckMac
    \/ Decrypt
    \/ CheckRndIc
    \/ CheckRndIfd
    \/ SetupSession
    \/ Protect
    \/ SendProtected
    \/ RecvProtected

Spec == Init /\ [][Next]_vars

\* main is one sequential thread that runs on while it can, and the transport
\* answers every command it was sent
SpecFair == Spec /\ WF_vars(Next)

(***************************************************************************)
(* The handshake's phase, read off main's position.                        *)
(***************************************************************************)
Phase ==
    IF pc \in {"read_ca", "read_ca_wait", "mrz", "get_chal"} THEN "Idle"
    ELSE IF pc \in {"protect", "send_papdu", "send_papdu_wait", "done"} THEN "Authenticated"
    ELSE IF result = "Err" THEN "Failed"
    ELSE IF result = "Panic" THEN "Panicked"
    ELSE IF pc \in {"get_chal_wait", "gen", "build", "ext_auth"} THEN "ChallengeRequested"
    ELSE "AuthenticateSent"


(***************************************************************************)
(* enc_apdu on its own: the keys, the counter and the command are drawn    *)
(* from bounded sets and enc_apdu is applied once (as tests::test_enc_apdu *)
(* does).                                                                  *)
(***************************************************************************)
\* 0036D272F5C350ACAC50C3F572D23600, the seed of tests::test_enc_apdu
TestSeed == <<0, 54, 210, 114, 245, 195, 80, 172, 172, 80, 195, 245, 114, 210, 54, 0>>

EncSeeds == {TestSeed, [i \in 1..16 |-> 255 - i]}

\* 0x887022120C06C227 of tests::test_enc_apdu, the largest and the smallest u64
EncCounters == {<<34928, 8722, 3078, 49703>>, U64Max, U64Zero}

EncHeaders == {<<0, 164, 2, 12>>, <<12, 176, 0, 0>>, <<0, 214, 0, 0>>}

\* header, Lc and l bytes of data; and commands too short for enc_apdu
EncCommands ==
    {h \o <<l>> \o [i \in 1..l |-> 16 + i] : h \in EncHeaders, l \in 0..MaxDataLen}
    \cup {<<0, 164, 2, 12, 2, 1, 30>>}
    \cup {<<0, 164, 2, 12>>, <<0, 164>>}

InitEnc ==
    /\ pc = "enc_apdu"
    /\ result = "running"
    /\ errs = << >>
    /\ out = << >>
    /\ sent = << >>
    /\ rcvd = << >>
    /\ mac_calls = << >>
    /\ rng_draws = << >>
    /\ mrz = [set |-> FALSE, val |-> << >>]
    /\ kenc = Unset /\ kmac = Unset
    /\ rnd_ic = Unset /\ rnd_ifd = Unset /\ k_ifd = Unset
    /\ msg = Unset /\ resp_data = Unset /\ mac = Unset
    /\ k_ic = Unset
    /\ seed \in EncSeeds
    /\ ksenc = derive_keys(seed)[1]
    /\ ksmac = derive_keys(seed)[2]
    /\ ssc \in EncCounters
    /\ apdu \in EncCommands
    /\ papdu = Unset /\ enc_ssc = Unset
    /\ call = Call("enc_apdu", << >>, 0) /\ ret = Unset

EncApduCall ==
    /\ Running("enc_apdu")
    /\ enc_ssc' = ssc
    /\ IF EncApduAccepts(apdu)
         THEN /\ papdu' = enc_apdu(<<ksenc, ksmac>>, enc_ssc', apdu)
              /\ mac_calls' = Append(mac_calls, EncApduMacInput(<<ksenc, ksmac>>, enc_ssc', apdu))
              /\ pc' = "enc_done"
              /\ result' = "Ok"
              /\ errs' = errs
         ELSE /\ Panic
              /\ UNCHANGED <<papdu, mac_calls>>
    /\ UNCHANGED <<call, ret, out, ioVars, rng_draws, mrz, hsVars, ksenc, ksmac, ssc, apdu>>

NextEnc == EncApduCall

SpecEnc == InitEnc /\ [][NextEnc]_vars


(***************************************************************************)
(* The Icao9303 methods called on their own (main.rs:55-177): one call of  *)
(* one method, its arguments and the chip's replies drawn from small sets. *)
(***************************************************************************)
\* longest application identifier handed to select_dedicated_file
MaxAidLen == 17

SelectMasterFileApdu == <<0, 164, 0, 12, 2, 63, 0>>

\* variant: an application identifier of any length is accepted
SelectDedicatedFileAccepts_Any(application_id) == TRUE

\* ensure!(application_id.len() <= 16)
SelectDedicatedFileAccepts(application_id) == Len(application_id) <= 16

SelectDedicatedFileApdu(application_id) ==
    <<0, 164, 4, 12, Len(application_id) % 256>> \o application_id

u16_to_be_bytes(file) == <<file \div 256, file % 256>>

SelectElementaryFileApdu(file) == <<0, 164, 2, 12, 2>> \o u16_to_be_bytes(file)

ReadElementaryFileApdu == <<0, 176, 0, 0, 0, 0, 255>>

\* variant: every status other than 9000 is an error
SelectReply_Strict(r, text) ==
    IF ~r.ok THEN Err(NfcError)
    ELSE IF ~is_success(r.sw) THEN Err(AnyhowError(text, r.sw))
    ELSE IF r.data # << >> THEN Err(EnsureError("data.is_empty()"))
    ELSE Ok(<< >>)

\* what the three select methods and read_elementary_file make of the reply
\* to SELECT: an error only when the status is neither success nor 61xx
SelectReply(r, text) ==
    IF ~r.ok THEN Err(NfcError)
    ELSE IF ~is_success(r.sw) /\ data_remaining(r.sw) = None
        THEN Err(AnyhowError(text, r.sw))
    ELSE IF r.data # << >> THEN Err(EnsureError("data.is_empty()"))
    ELSE Ok(<< >>)

select_master_file(r) == SelectReply(r, "Failed to select master file")

select_dedicated_file(r) == SelectReply(r, "Failed to select dedicated file")

select_elementary_file(r) == SelectReply(r, "Failed to select dedicated file")

\* read_elementary_file, first exchange (SELECT) and second exchange (READ)
read_elementary_file_select(r) == SelectReply(r, "Failed to select file")

read_elementary_file_read(r) ==
    IF ~r.ok THEN Err(NfcError)
    ELSE IF ~is_success(r.sw) THEN Err(AnyhowError("Failed to read file", r.sw))
    ELSE IF data_remaining(r.sw) # None THEN Err(EnsureError("status.data_remaining() == None"))
    ELSE Ok(r.data)

\* the callers' arguments
Bytes(n) == [i \in 1..n |-> i]

ApiCalls ==
    {Call("select_master_file", << >>, 0)}
    \cup {Call("select_dedicated_file", Bytes(n), 0) : n \in 0..MaxAidLen}
    \cup {Call("select_elementary_file", << >>, f) : f \in {284, 286}}
    \cup {Call("read_elementary_file", << >>, f) : f \in {284, 286}}
    \cup {Call("read_binary_short_ef", << >>, f) : f \in {0, 28, 31, 32, 255}}
    \cup {Call("get_challenge", << >>, 0)}
    \cup {Call("external_authenticate", Bytes(n), 0) : n \in {0, 39, 40, 41}}

\* the chip's replies: no reply, 9000 without and with data, 6A82, and 61xx
\* (more data available) without and with data
ApiReplies ==
    {TransportError,
     Reply(36864, << >>), Reply(36864, <<1, 2, 3, 4, 5, 6, 7, 8>>),
     Reply(27266, << >>),
     Reply(24848, << >>), Reply(24848, <<1, 2>>)}

InitApi ==
    /\ pc = "call" /\ result = "running" /\ errs = << >> /\ out = << >>
    /\ sent = << >> /\ rcvd = << >>
    /\ mac_calls = << >> /\ rng_draws = << >>
    /\ mrz = Unset
    /\ kenc = Unset /\ kmac = Unset /\ rnd_ic = Unset /\ rnd_ifd = Unset
    /\ k_ifd = Unset /\ msg = Unset /\ resp_data = Unset /\ mac = Unset
    /\ k_ic = Unset /\ seed = Unset
    /\ ksenc = Unset /\ ksmac = Unset /\ ssc = Unset
    /\ apdu = Unset /\ papdu = Unset /\ enc_ssc = Unset
    /\ call \in ApiCalls /\ ret = Unset

ApiFrame == UNCHANGED <<out, mac_calls, rng_draws, mrz, hsVars, smVars, call>>

\* self.nfc.send_apdu(cmd): the command goes out, the method waits at l
Exchange(cmd, l) ==
    /\ sent' = Append(sent, cmd)
    /\ Goto(l)
    /\ UNCHANGED <<rcvd, ret>>

\* ensure! fails on the arguments: Err before anything is sent
Reject(e) ==
    /\ Return(e)
    /\ UNCHANGED <<sent, rcvd, ret>>

\* the reply r arrives and the method returns res
Finish(r, res) ==
    /\ rcvd' = Append(rcvd, r)
    /\ IF res.ok
         THEN /\ result' = "Ok"
              /\ ret' = res.val
              /\ UNCHANGED <<pc, errs>>
         ELSE /\ Return(res.err)
              /\ UNCHANGED ret
    /\ UNCHANGED sent

Called(op, l) == Running(l) /\ call.op = op

\* main.rs:55-66
SelectMasterFileSend ==
    /\ Called("select_master_file", "call")
    /\ Exchange(SelectMasterFileApdu, "wait")
    /\ ApiFrame

SelectMasterFileRecv ==
    /\ Called("select_master_file", "wait")
    /\ \E r \in ApiReplies : Finish(r, select_master_file(r))
    /\ ApiFrame

\* main.rs:68-82
SelectDedicatedFileSend ==
    /\ Called("select_dedicated_file", "call")
    /\ IF SelectDedicatedFileAccepts(call.data)
         THEN Exchange(SelectDedicatedFileApdu(call.data), "wait")
         ELSE Reject(EnsureError("application_id.len() <= 16"))
    /\ ApiFrame

SelectDedicatedFileRecv ==
    /\ Called("select_dedicated_file", "wait")
    /\ \E r \in ApiReplies : Finish(r, select_dedicated_file(r))
    /\ ApiFrame

\* main.rs:84-102
SelectElementaryFileSend ==
    /\ Called("select_elementary_file", "call")
    /\ Exchange(SelectElementaryFileApdu(call.file), "wait")
    /\ ApiFrame

SelectElementaryFileRecv ==
    /\ Called("select_elementary_file", "wait")
    /\ \E r \in ApiReplies : Finish(r, select_elementary_file(r))
    /\ ApiFrame

\* main.rs:111-124
ReadBinaryShortEfSend ==
    /\ Called("read_binary_short_ef", "call")
    /\ IF ReadBinaryShortEfAccepts(call.file)
         THEN Exchange(ReadBinaryShortEfApdu(call.file), "wait")
         ELSE Reject(EnsureError("file <= 0x1F"))
    /\ ApiFrame

ReadBinaryShortEfRecv ==
    /\ Called("read_binary_short_ef", "wait")
    /\ \E r \in ApiReplies : Finish(r, read_binary_short_ef(r))
    /\ ApiFrame

\* main.rs:129-137
GetChallengeCallSend ==
    /\ Called("get_challenge", "call")
    /\ Exchange(GetChallengeApdu, "wait")
    /\ ApiFrame

GetChallengeCallRecv ==
    /\ Called("get_challenge", "wait")
    /\ \E r \in ApiReplies : Finish(r, get_challenge(r))
    /\ ApiFrame

\* main.rs:139-149; assert_eq! panics where the other methods return Err
ExternalAuthenticateCallSend ==
    /\ Called("external_authenticate", "call")
    /\ IF ExternalAuthenticateAccepts(call.data)
         THEN Exchange(ExternalAuthenticateApdu(call.data), "wait")
         ELSE Panic /\ UNCHANGED <<sent, rcvd, ret>>
    /\ ApiFrame

ExternalAuthenticateCallRecv ==
    /\ Called("external_authenticate", "wait")
    /\ \E r \in ApiReplies : Finish(r, external_authenticate(r))
    /\ ApiFrame

\* main.rs:151-177: SELECT, then READ BINARY
ReadElementaryFileSelectSend ==
    /\ Called("read_elementary_file", "call")
    /\ Exchange(SelectElementaryFileApdu(call.file), "wait")
    /\ ApiFrame

ReadElementaryFileSelectRecv ==
    /\ Called("read_elementary_file", "wait")
    /\ \E r \in ApiReplies :
          /\ rcvd' = Append(rcvd, r)
          /\ IF read_elementary_file_select(r).ok
               THEN Goto("read")
               ELSE Return(read_elementary_file_select(r).err)
    /\ UNCHANGED <<sent, ret>>
    /\ ApiFrame

ReadElementaryFileReadSend ==
    /\ Called("read_elementary_file", "read")
    /\ Exchange(ReadElementaryFileApdu, "read_wait")
    /\ ApiFrame

ReadElementaryFileReadRecv ==
    /\ Called("read_elementary_file", "read_wait")
    /\ \E r \in ApiReplies : Finish(r, read_elementary_file_read(r))
    /\ ApiFrame

NextApi ==
    \/ SelectMasterFileSend \/ SelectMasterFileRecv
    \/ SelectDedicatedFileSend \/ SelectDedicatedFileRecv
    \/ SelectElementaryFileSend \/ SelectElementaryFileRecv
    \/ ReadBinaryShortEfSend \/ ReadBinaryShortEfRecv
    \/ GetChallengeCallSend \/ GetChallengeCallRecv
    \/ ExternalAuthenticateCallSend \/ ExternalAuthenticateCallRecv
    \/ ReadElementaryFileSelectSend \/ ReadElementaryFileSelectRecv
    \/ ReadElementaryFileReadSend \/ ReadElementaryFileReadRecv

SpecApi == InitApi /\ [][NextApi]_vars

(***************************************************************************)
(* Vocabulary of the properties.  main's exchanges come in a fixed order:  *)
(* 1 READ BINARY, 2 GET CHALLENGE, 3 EXTERNAL AUTHENTICATE, 4 the          *)
(* protected command.                                                      *)
(***************************************************************************)
ExtAuthAnswered == Len(rcvd) >= 3 /\ rcvd[3].ok /\ is_success(rcvd[3].sw)
ExtAuthData == rcvd[3].data

\* the response is 40 bytes and its last 8 are the MAC under Kmac of its first 32
ExtAuthMacValid ==
    /\ Len(ExtAuthData) = 40
    /\ mac_3des(kmac, SubSeq(ExtAuthData, 1, 32)) = SubSeq(ExtAuthData, 33, 40)

BadExtAuthResponse == ExtAuthAnswered /\ ~ExtAuthMacValid

\* the counter the nonces of this attempt seed, written out limb by limb
Ssc0 == <<rnd_ic[5] * 256 + rnd_ic[6], rnd_ic[7] * 256 + rnd_ic[8],
          rnd_ifd[5] * 256 + rnd_ifd[6], rnd_ifd[7] * 256 + rnd_ifd[8]>>

\* enc_apdu has run
Protected == pc \in {"send_papdu", "send_papdu_wait", "done"}

\* the counter folded into the MAC input of the k-th protected command
MacCounter(k) == from_be_bytes(SubSeq(mac_calls[2 + k], 1, 8))

ProtectedSent == SubSeq(sent, 4, Len(sent))

\* what the chip MACs to verify a protected command under its counter c
ChipMacInput(cmd, c) ==
    to_be_bytes(c) \o SubSeq(cmd, 1, 4) \o <<128, 0, 0, 0>> \o SubSeq(cmd, 6, Len(cmd) - 11)

ChipAccepts(cmd, c) ==
    mac_3des(ksmac, ChipMacInput(cmd, c)) = SubSeq(cmd, Len(cmd) - 8, Len(cmd) - 1)

\* the handshake failed at one of the three authentication checks
AuthFailure == Phase = "Failed" /\ pc \in {"check_mac", "check_rnd_ic", "check_rnd_ifd"}

PhaseRank(ph) ==
    CASE ph = "Idle" -> 0
      [] ph = "ChallengeRequested" -> 1
      [] ph = "AuthenticateSent" -> 2
      [] OTHER -> 3

CountIns(ins) == Cardinality({i \in 1..Len(sent) : sent[i][1] = 0 /\ sent[i][2] = ins})

(***************************************************************************)
(* C1.  An EXTERNAL AUTHENTICATE response returned with a success status   *)
(* whose length is not 40, or whose last 8 bytes are not the retail MAC    *)
(* under Kmac of its first 32, never makes main panic: main gets no        *)
(* further than the length check (wrong length) or the MAC check, no MAC   *)
(* is computed over a response of the wrong length, and when main has      *)
(* stopped it has returned one error with the handshake Failed.            *)
(***************************************************************************)
C1_BadResponseFails ==
    /\ result # "Panic"
    /\ BadExtAuthResponse =>
         /\ pc \in {"check_len", "check_mac"}
         /\ (Len(ExtAuthData) # 40 => pc = "check_len" /\ Len(mac_calls) = 1)
         /\ (result # "running" => result = "Err" /\ Phase = "Failed" /\ Len(errs) = 1)

\* a response too short to be sliced at 32 has been rejected
C1_Witness ==
    /\ BadExtAuthResponse
    /\ Len(ExtAuthData) < 32
    /\ Phase = "Failed"
    /\ errs = <<RespLenError>>

(***************************************************************************)
(* C2.  The handshake is Authenticated only if the EXTERNAL AUTHENTICATE   *)
(* response had length 40, a valid MAC, and decrypts to a plaintext whose  *)
(* bytes 0..8 are the rnd.ic the chip returned to GET CHALLENGE in this    *)
(* run and whose bytes 8..16 are the rnd.ifd drawn in this run (the one    *)
(* the reader put into its EXTERNAL AUTHENTICATE command).                 *)
(***************************************************************************)
C2_AuthenticatedOnlyIfVerified ==
    Phase = "Authenticated" =>
        /\ ExtAuthAnswered
        /\ ExtAuthMacValid
        /\ LET p == dec_3des(kenc, SubSeq(ExtAuthData, 1, 32))
               q == dec_3des(kenc, SubSeq(sent[3], 6, 37))
           IN  /\ SubSeq(p, 1, 8) = rcvd[2].data
               /\ SubSeq(p, 9, 16) = SubSeq(q, 1, 8)
               /\ SubSeq(q, 1, 8) = rnd_ifd
               /\ rng_draws = <<8, 16>>

C2_Witness == Phase = "Authenticated" /\ result = "Ok" /\ pc = "done"

(***************************************************************************)
(* C3.  Whenever the handshake is Failed, the session keys and the SSC     *)
(* are unassigned, no protected command exists, and main has returned      *)
(* exactly one error.                                                      *)
(***************************************************************************)
C3_FailedLeavesNoSession ==
    Phase = "Failed" =>
        /\ ksenc = Unset /\ ksmac = Unset /\ ssc = Unset
        /\ papdu = Unset /\ enc_ssc = Unset
        /\ Len(errs) = 1
        /\ result = "Err"

\* the last check of the handshake failed
C3_Witness == Phase = "Failed" /\ pc = "check_rnd_ifd" /\ errs = <<RndIfdError>>

(***************************************************************************)
(* C4 as stated.  enc_apdu increments the counter it is handed: the        *)
(* counter in the MAC input and the session's counter after the call are   *)
(* both one more than the value handed to enc_apdu.                        *)
(***************************************************************************)
C4_EncApduIncrements ==
    Protected =>
        /\ MacCounter(1) = wrapping_add(enc_ssc, 1)
        /\ ssc = wrapping_add(enc_ssc, 1)

(***************************************************************************)
(* C4 as amended.  enc_apdu folds the counter it is handed into the MAC    *)
(* input unchanged and leaves the session's counter alone; it is main      *)
(* that increments the session's counter by one (mod 2^64) right before    *)
(* the call, so the value handed over, the value in the MAC input and the  *)
(* session's counter after the call are all the seeded counter plus one.   *)
(***************************************************************************)
C4_CallerIncrements ==
    Protected =>
        /\ MacCounter(1) = enc_ssc
        /\ ssc = enc_ssc
        /\ enc_ssc = wrapping_add(Ssc0, 1)

C4_Witness == Protected /\ enc_ssc = <<34928, 8722, 3078, 49703>>

C6_SessionSeeding ==
    /\ pc = "protect" =>
         to_be_bytes(ssc) = SubSeq(rcvd[2].data, 5, 8) \o SubSeq(rnd_ifd, 5, 8)
    /\ Phase = "Authenticated" =>
         LET p == dec_3des(kenc, SubSeq(ExtAuthData, 1, 32))
         IN  /\ k_ic = SubSeq(p, 17, 32)
             /\ \A i \in 1..16 : seed[i] = XorByte(k_ifd[i], p[16 + i])
             /\ Len(seed) = 16
             /\ <<ksenc, ksmac>> = derive_keys(seed)

C6_Witness == pc = "protect" /\ result = "running" /\ ssc # U64Max /\ seed # Zeros(16)

(***************************************************************************)
(* C7 as stated.  The counter used for the protected command is strictly   *)
(* greater, as an unsigned 64-bit integer, than the seeded counter.        *)
(***************************************************************************)
C7_StrictlyIncreasing == Protected => U64Lt(Ssc0, MacCounter(1))

(***************************************************************************)
(* C7 as amended.  The counter used for the protected command is the       *)
(* seeded counter plus one modulo 2^64: it differs from the seeded value,  *)
(* it is strictly greater than it unless the seeded value is               *)
(* 0xFFFFFFFFFFFFFFFF, and in that case it is 0.                           *)
(***************************************************************************)
C7_IncrementsModulo ==
    Protected =>
        /\ MacCounter(1) # Ssc0
        /\ (Ssc0 # U64Max => U64Lt(Ssc0, MacCounter(1)))
        /\ (Ssc0 = U64Max => MacCounter(1) = U64Zero /\ ssc = U64Zero)

\* the handshake seeded the largest counter and a command was protected
C7_Witness == Protected /\ Ssc0 = U64Max /\ Len(ProtectedSent) = 1

(***************************************************************************)
(* C8 (SpecEnc).  In the output of enc_apdu, Lc is the number of bytes     *)
(* between it and the final Le byte (the tag-0x87 and tag-0x8E objects),   *)
(* and the length byte of the tag-0x87 object is 1 plus the length of the  *)
(* ciphertext.                                                             *)
(***************************************************************************)
C8_LengthsFollowData ==
    pc = "enc_done" =>
        /\ papdu[5] = Len(papdu) - 6
        /\ papdu[7] = 1 + Len(PadCmdData(Slice(apdu, 5, Len(apdu))))
        /\ papdu[7] = 1 + (Len(papdu) - 19)

(***************************************************************************)
(* C9 as stated.  Every authentication failure (MAC, rnd.ic or rnd.ifd     *)
(* mismatch) returns one and the same error value, the one a MAC mismatch  *)
(* returns.                                                                *)
(***************************************************************************)
C9_FailuresIndistinguishable == AuthFailure => errs = <<MacMismatchError>>

(***************************************************************************)
(* C9 as amended.  The three authentication failures print the same lines  *)
(* and leave no session state, but each returns the error of its own       *)
(* ensure! line, so the error value tells which check failed.              *)
(***************************************************************************)
C9_ErrorNamesCheck ==
    AuthFailure =>
        /\ Len(errs) = 1
        /\ (errs[1] = MacMismatchError) = (pc = "check_mac")
        /\ (errs[1] = RndIcError) = (pc = "check_rnd_ic")
        /\ (errs[1] = RndIfdError) = (pc = "check_rnd_ifd")
        /\ out = <<"CardAccess", "Using MRZ", "kenc", "kmac", "rnd.ic", "rnd.ifd",
                   "k.ifd", "Response", "MAC">>
        /\ ksenc = Unset /\ ssc = Unset

\* a response with a valid MAC and the wrong rnd.ic has been rejected
C9_Witness == AuthFailure /\ pc = "check_rnd_ic" /\ ExtAuthMacValid

(***************************************************************************)
(* C10.  GET CHALLENGE and EXTERNAL AUTHENTICATE are each sent at most     *)
(* once; the phase never moves backwards; Authenticated and Failed are     *)
(* never left; and once the handshake is Failed nothing more is handed to  *)
(* the transport.                                                          *)
(***************************************************************************)
C10_NoRetries ==
    /\ [](CountIns(132) <= 1 /\ CountIns(130) <= 1)
    /\ [][/\ PhaseRank(Phase') >= PhaseRank(Phase)
          /\ (Phase \in {"Authenticated", "Failed"} => Phase' = Phase)
          /\ (Phase = "Failed" => sent' = sent /\ rcvd' = rcvd)]_vars

\* the handshake failed after both of its commands were sent
C10_Witness == Phase = "Failed" /\ CountIns(132) = 1 /\ CountIns(130) = 1 /\ Len(sent) = 3


(***************************************************************************)
(* C11.  When the reply to GET CHALLENGE is a transport error, carries a   *)
(* status other than success, or carries data that is not 8 bytes long,    *)
(* main returns an error at that call with the handshake Failed: no        *)
(* random value is drawn and EXTERNAL AUTHENTICATE is not sent.            *)
(***************************************************************************)
BadChallengeReply ==
    /\ Len(rcvd) >= 2
    /\ (~rcvd[2].ok \/ rcvd[2].sw # 36864 \/ Len(rcvd[2].data) # 8)

C11_BadChallengeFails ==
    BadChallengeReply =>
        /\ Phase = "Failed"
        /\ pc = "get_chal_wait"
        /\ Len(errs) = 1
        /\ CountIns(130) = 0
        /\ Len(sent) = 2
        /\ rng_draws = << >> /\ msg = Unset

\* a challenge of 7 or 9 bytes with status 9000 has been rejected
C11_Witness ==
    /\ BadChallengeReply
    /\ rcvd[2].ok /\ rcvd[2].sw = 36864
    /\ Phase = "Failed"
    /\ errs = <<EnsureError("data.len() == 8")>>

(***************************************************************************)
(* C12.  A call with malformed arguments -- select_dedicated_file with     *)
(* more than 16 identifier bytes, read_binary_short_ef with a file above   *)
(* 0x1F, external_authenticate with data that is not 40 bytes -- never     *)
(* hands an APDU to the transport and never returns Ok: the first two      *)
(* return the ensure! error, external_authenticate panics on assert_eq!.   *)
(***************************************************************************)
MalformedCall ==
    \/ call.op = "select_dedicated_file" /\ Len(call.data) > 16
    \/ call.op = "read_binary_short_ef" /\ call.file > 31
    \/ call.op = "external_authenticate" /\ Len(call.data) # 40

C12_MalformedRejectedBeforeIo ==
    MalformedCall =>
        /\ sent = << >> /\ rcvd = << >>
        /\ pc = "call"
        /\ result \in {"running", "Err", "Panic"}
        /\ result = "Panic" => call.op = "external_authenticate"
        /\ result = "Err" =>
              errs \in {<<EnsureError("application_id.len() <= 16")>>,
                        <<EnsureError("file <= 0x1F")>>}

C12_Witness ==
    /\ call.op = "select_dedicated_file" /\ Len(call.data) = 17
    /\ result = "Err" /\ errs = <<EnsureError("application_id.len() <= 16")>>
    /\ sent = << >>

(***************************************************************************)
(* C13 (SpecEnc).  Whenever enc_apdu returns: the output starts with the   *)
(* input's class byte with bits 0x0C set and every other bit as it was,    *)
(* then INS, P1, P2 unchanged; the MAC input is the 8-byte big-endian      *)
(* counter, then those four bytes and 80 00 00 00; the tag-0x87 object     *)
(* starts right after Lc and the tag-0x8E object (8E 08 and 8 bytes) comes *)
(* after it, followed only by the final 00.  A class byte that already has *)
(* the SM bits set is left as it is.                                       *)
(***************************************************************************)
EncMacInput == mac_calls[Len(mac_calls)]

C13_ProtectedLayout ==
    pc = "enc_done" =>
        /\ (papdu[1] \div 4) % 4 = 3
        /\ papdu[1] \div 16 = apdu[1] \div 16
        /\ papdu[1] % 4 = apdu[1] % 4
        /\ ((apdu[1] \div 4) % 4 = 3 => papdu[1] = apdu[1])
        /\ SubSeq(papdu, 2, 4) = SubSeq(apdu, 2, 4)
        /\ SubSeq(EncMacInput, 1, 8) = to_be_bytes(ssc)
        /\ SubSeq(EncMacInput, 9, 16) = SubSeq(papdu, 1, 4) \o <<128, 0, 0, 0>>
        /\ papdu[6] = 135
        /\ Len(papdu) - 10 > 6
        /\ SubSeq(papdu, Len(papdu) - 10, Len(papdu) - 9) = <<142, 8>>
        /\ papdu[Len(papdu)] = 0

\* a command with data whose class byte already had the SM bits was protected
C13_Witness ==
    /\ pc = "enc_done" /\ apdu[1] = 12 /\ Len(apdu) > 5
    /\ papdu[1] = 12 /\ papdu[6] = 135

(***************************************************************************)
(* C14.  Whenever main holds derived keys, the first of the pair is the    *)
(* key derived with counter 1 and the second the key derived with counter  *)
(* 2 from the same seed, and every byte of both has an odd number of one   *)
(* bits: for the keys derived from the MRZ seed and for the session keys   *)
(* derived from k.ifd XOR k.ic.                                            *)
(***************************************************************************)
OddParity(key) == \A i \in 1..Len(key) : PopCount(key[i]) % 2 = 1

C14_DerivedKeys ==
    /\ kenc # Unset =>
          /\ kenc = derive_key(seed_from_mrz(mrz.val), 1)
          /\ kmac = derive_key(seed_from_mrz(mrz.val), 2)
          /\ Len(kenc) = 16 /\ Len(kmac) = 16
          /\ OddParity(kenc) /\ OddParity(kmac)
    /\ ksenc # Unset =>
          /\ seed = XorBytes(k_ifd, k_ic)
          /\ ksenc = derive_key(seed, 1)
          /\ ksmac = derive_key(seed, 2)
          /\ Len(ksenc) = 16 /\ Len(ksmac) = 16
          /\ OddParity(ksenc) /\ OddParity(ksmac)

\* both pairs were derived, and in each the two counters give different keys
C14_Witness ==
    /\ kenc # Unset /\ ksenc # Unset
    /\ kenc # kmac /\ ksenc # ksmac
    /\ ksenc # kenc

(***************************************************************************)
(* C15.  The response to EXTERNAL AUTHENTICATE is decrypted only after its *)
(* length check and its MAC check have passed: until then resp_data is the *)
(* response as received, and once it has been decrypted the response was   *)
(* 40 bytes with a valid MAC, resp_data is the decryption of its first 32  *)
(* bytes, and the MAC was computed before.  A nonce check is evaluated,    *)
(* and can fail, on such a decrypted plaintext only.                       *)
(***************************************************************************)
Decrypted ==
    pc \in {"check_rnd_ic", "check_rnd_ifd", "session", "protect",
            "send_papdu", "send_papdu_wait", "done"}

C15_MacBeforeDecrypt ==
    /\ (ExtAuthAnswered /\ ~Decrypted) => resp_data = ExtAuthData
    /\ Decrypted =>
          /\ ExtAuthAnswered /\ ExtAuthMacValid
          /\ Len(mac_calls) >= 2
          /\ mac_calls[2] = SubSeq(ExtAuthData, 1, 32)
          /\ mac = SubSeq(ExtAuthData, 33, 40)
          /\ resp_data = dec_3des(kenc, SubSeq(ExtAuthData, 1, 32))
    /\ (\E i \in 1..Len(errs) : errs[i] \in {RndIcError, RndIfdError}) =>
          Decrypted /\ ExtAuthMacValid

\* a MAC-verified response was decrypted and then failed a nonce check
C15_Witness ==
    /\ Decrypted /\ ExtAuthMacValid
    /\ resp_data # SubSeq(ExtAuthData, 1, 32)
    /\ errs = <<RndIfdError>>

(***************************************************************************)
(* C16.  The random source is drawn from at one point of a run only, for   *)
(* rnd.ifd (8 bytes) and then k.ifd (16 bytes): never before an 8-byte     *)
(* rnd.ic has arrived with status 9000, always before EXTERNAL             *)
(* AUTHENTICATE is sent.  The plaintext of the EXTERNAL AUTHENTICATE data  *)
(* is rnd.ifd || rnd.ic || k.ifd with the values drawn, and these same     *)
(* values pass the nonce check and make the session seed and the counter.  *)
(***************************************************************************)
Drawn == rng_draws # << >>

C16_OneDraw ==
    /\ rng_draws \in {<< >>, <<8, 16>>}
    /\ Drawn <=> rnd_ifd # Unset
    /\ Drawn <=> k_ifd # Unset
    /\ Drawn =>
          /\ Len(rnd_ifd) = 8 /\ Len(k_ifd) = 16
          /\ Len(rcvd) >= 2 /\ rcvd[2].ok /\ rcvd[2].sw = 36864
          /\ rnd_ic = rcvd[2].data /\ Len(rnd_ic) = 8
    /\ BadChallengeReply => ~Drawn
    /\ (~Drawn \/ pc \in {"build", "ext_auth"}) => CountIns(130) = 0
    /\ CountIns(130) > 0 =>
          /\ Drawn
          /\ dec_3des(kenc, SubSeq(sent[3], 6, 37)) = rnd_ifd \o rnd_ic \o k_ifd
    /\ (pc \in {"session", "protect"} \/ Protected) =>
          SubSeq(resp_data, 9, 16) = rnd_ifd
    /\ pc = "protect" =>
          /\ seed = XorBytes(k_ifd, k_ic)
          /\ ssc = Ssc0
    /\ Protected =>
          /\ seed = XorBytes(k_ifd, k_ic)
          /\ MacCounter(1) = wrapping_add(Ssc0, 1)

\* the session was set up from the values drawn before EXTERNAL AUTHENTICATE
C16_Witness ==
    /\ pc = "protect" /\ rng_draws = <<8, 16>>
    /\ CountIns(130) = 1
    /\ seed = XorBytes(k_ifd, k_ic) /\ seed # k_ifd

(***************************************************************************)
(* C17 (SpecFair).  Once GET CHALLENGE has been sent the run reaches       *)
(* Authenticated or Failed; at most one GET CHALLENGE and at most one      *)
(* EXTERNAL AUTHENTICATE are ever sent; and a command is sent only when    *)
(* every earlier command has its reply: at most one reply is outstanding,  *)
(* and while one is, main is waiting for it.                               *)
(***************************************************************************)
Waiting == pc \in {"read_ca_wait", "get_chal_wait", "ext_auth_wait", "send_papdu_wait"}

HalfDuplex ==
    /\ Len(sent) - Len(rcvd) \in {0, 1}
    /\ Len(sent) > Len(rcvd) <=> (Waiting /\ result = "running")

C17_HandshakeCompletes ==
    /\ (Phase = "ChallengeRequested") ~> (Phase \in {"Authenticated", "Failed"})
    /\ [](CountIns(132) <= 1 /\ CountIns(130) <= 1)
    /\ []HalfDuplex
    /\ [][Len(sent') > Len(sent) => Len(sent) = Len(rcvd)]_vars

\* an attempt ended Failed on the length of the response, after one GET
\* CHALLENGE and one EXTERNAL AUTHENTICATE, each answered
C17_Witness ==
    /\ Phase = "Failed" /\ pc = "check_len"
    /\ CountIns(132) = 1 /\ CountIns(130) = 1
    /\ Len(sent) = 3 /\ Len(rcvd) = 3

(***************************************************************************)
(* C18 as stated.  Every input handed to the retail MAC has a length that  *)
(* is a multiple of 8.                                                     *)
(***************************************************************************)
C18_AllAligned == \A i \in 1..Len(mac_calls) : Len(mac_calls[i]) % 8 = 0

(***************************************************************************)
(* C18 as the code has it.  The two MAC calls of the handshake are handed  *)
(* 32 bytes each.  The call in enc_apdu is handed the counter (8), the     *)
(* padded header (8), 87 09 01 (3) and the padded ciphertext (a multiple   *)
(* of 8), unpadded: a length that is 3 modulo 8, 27 bytes for the command  *)
(* main protects.                                                          *)
(***************************************************************************)
C18_MacInputLengths ==
    \A i \in 1..Len(mac_calls) :
        IF i <= 2 THEN Len(mac_calls[i]) = 32
        ELSE /\ Len(mac_calls[i]) % 8 = 3
             /\ Len(mac_calls[i]) = 19 + Len(PadCmdData(Slice(apdu, 5, Len(apdu))))
             /\ Len(mac_calls[i]) = 27

\* all three calls were made: the message, the response, the protected command
C18_Witness ==
    /\ Len(mac_calls) = 3
    /\ Len(mac_calls[1]) = 32 /\ Len(mac_calls[2]) = 32 /\ Len(mac_calls[3]) = 27
    /\ Protected

(***************************************************************************)
(* C19 as stated (SpecApi).  Whenever a reply's status is not 9000 the     *)
(* method returns an error and exchanges nothing further.                  *)
(***************************************************************************)
C19_NonSuccessIsError ==
    \A i \in 1..Len(rcvd) :
        (rcvd[i].ok /\ rcvd[i].sw # 36864) => (result = "Err" /\ Len(sent) = i)

(***************************************************************************)
(* C19 as the code has it (SpecApi).  A transport error, a reply to SELECT *)
(* with data, and a status other than 9000 make the method return an error *)
(* without a further exchange -- except that a reply to SELECT (in the     *)
(* three select methods and in the first exchange of read_elementary_file) *)
(* with status 61xx and no data is accepted: the select methods return Ok  *)
(* and read_elementary_file goes on to READ BINARY.  A method returns Ok   *)
(* only if every reply was 9000 or such an accepted reply to SELECT.       *)
(***************************************************************************)
IsSelect(i) ==
    \/ call.op \in {"select_master_file", "select_dedicated_file", "select_elementary_file"}
    \/ call.op = "read_elementary_file" /\ i = 1

DataRemainingReply(r) == r.ok /\ r.sw \div 256 = 97 /\ r.data = << >>

Refused(i) == result = "Err" /\ Len(sent) = i /\ Len(errs) = 1

C19_ErrorUnlessDataRemaining ==
    /\ \A i \in 1..Len(rcvd) :
          LET r == rcvd[i]
          IN  /\ ~r.ok => Refused(i) /\ errs[1] = NfcError
              /\ (r.ok /\ r.sw # 36864 /\ ~(IsSelect(i) /\ DataRemainingReply(r))) =>
                    Refused(i)
              /\ (r.ok /\ IsSelect(i) /\ r.data # << >>) => Refused(i)
              /\ (IsSelect(i) /\ DataRemainingReply(r)) =>
                    IF call.op = "read_elementary_file"
                      THEN pc \in {"read", "read_wait"} /\ (result = "Err" => Len(rcvd) = 2)
                      ELSE result = "Ok" /\ Len(sent) = 1
    /\ result = "Ok" =>
          \A i \in 1..Len(rcvd) :
              \/ rcvd[i].ok /\ rcvd[i].sw = 36864
              \/ IsSelect(i) /\ DataRemainingReply(rcvd[i])

\* select_master_file returned Ok on the status 61 10
C19_Witness ==
    /\ call.op = "select_master_file" /\ result = "Ok"
    /\ rcvd = <<Reply(24848, << >>)>>

(***************************************************************************)
(* C20.  A command with the secure-messaging bits in its class byte is     *)
(* sent only as the fourth exchange, when the handshake of this run has    *)
(* passed all its checks (Authenticated), and it is the output of enc_apdu *)
(* under the session keys derived from k.ifd XOR k.ic of this handshake    *)
(* and under the counter this handshake seeded plus one, which the chip    *)
(* holding these session keys accepts; it is not the output under the      *)
(* MRZ-derived Kenc, Kmac.                                                 *)
(***************************************************************************)
HasSmBits(cmd) == (cmd[1] \div 4) % 4 = 3

SessionKeys == derive_keys(XorBytes(k_ifd, k_ic))

C20_ProtectedOnlyInSession ==
    /\ \A i \in 1..Len(sent) : HasSmBits(sent[i]) => i = 4
    /\ papdu # Unset => Phase = "Authenticated" /\ <<ksenc, ksmac>> = SessionKeys
    /\ Len(sent) >= 4 =>
          /\ Phase = "Authenticated"
          /\ ExtAuthAnswered /\ ExtAuthMacValid
          /\ SubSeq(resp_data, 1, 16) = rnd_ic \o rnd_ifd
          /\ HasSmBits(sent[4])
          /\ sent[4] = enc_apdu(SessionKeys, wrapping_add(Ssc0, 1), SelectEfCom)
          /\ sent[4] # enc_apdu(<<kenc, kmac>>, wrapping_add(Ssc0, 1), SelectEfCom)
          /\ ChipAccepts(sent[4], wrapping_add(Ssc0, 1))

\* the protected command went out, under session keys that differ from the
\* MRZ-derived ones in both halves
C20_Witness ==
    /\ Len(sent) = 4 /\ HasSmBits(sent[4])
    /\ ksenc # kenc /\ ksmac # kmac
    /\ pc = "send_papdu_wait"

=============================================================================
